---- MODULE Spec2Model ----
(***************************************************************************)
(* The request-dispatch engine of the redirect service (package redirect): *)
(* engine.ServeHTTP, engine.Reload, engine.Redirect, engine.IsRegularUser  *)
(* and engine.ProcessRegularUserUrl, with the sync.RWMutex that guards the *)
(* rule table.                                                             *)
(*                                                                         *)
(* Strings are sequences of one-symbol strings.  The symbol "H" stands for *)
(* an absolute prefix such as http://t.com, so every URL of the model is   *)
(* absolute and ASCII, the case in which http.Redirect writes its url      *)
(* argument to the Location header as it is.                               *)
(***************************************************************************)
EXTENDS Integers, Sequences, FiniteSets, TLC

\* ------------------------------------------------------------------ bounds
\* Total number of Reload calls, of requests, and of storage writes in a run
\* of Spec (concurrent callers) and of SpecServe (one caller of each kind).
MaxReloads == 2
MaxRequests == 1
MaxWrites == 1
ServeReloads == 1
ServeRequests == 1
PairReloads == 2
PairRequests == 2
PairWrites == 1
LiveReloads == 2
LiveRequests == 1

\* ------------------------------------------------------------- processes
\* The goroutines that run Reload and ServeHTTP.  A new call runs on the first
\* goroutine of its kind that is free.
ReloadSlots == <<"r1", "r2">>
RequestSlots == <<"q1", "q2">>
Reloaders == {ReloadSlots[i] : i \in 1..Len(ReloadSlots)}
Requests == {RequestSlots[i] : i \in 1..Len(RequestSlots)}
NoOne == "none"

OneReloader == {ReloadSlots[1]}
OneRequest == {RequestSlots[1]}

FirstFree(slots, free) ==
    IF \E i \in 1..Len(slots) : slots[i] \in free
    THEN {slots[CHOOSE i \in 1..Len(slots) :
                 slots[i] \in free /\ \A j \in 1..(i - 1) : slots[j] \notin free]}
    ELSE {}

\* ------------------------------------------------------ net/http statuses
StatusOK == 200
StatusMovedPermanently == 301
StatusNotFound == 404
StatusInternalServerError == 500

\* ------------------------------------------------------------ strings
EmptyStr == <<>>

RECURSIVE HasPrefix(_, _)
HasPrefix(s, p) ==
    IF p = <<>> THEN TRUE
    ELSE IF s = <<>> THEN FALSE
    ELSE Head(s) = Head(p) /\ HasPrefix(Tail(s), Tail(p))

\* strings.Contains(s, sub)
RECURSIVE Contains(_, _)
Contains(s, sub) ==
    IF HasPrefix(s, sub) THEN TRUE
    ELSE IF s = <<>> THEN FALSE
    ELSE Contains(Tail(s), sub)

\* unicode.ToLower on the letters of the model's alphabet
LowerRune(c) ==
    CASE c = "B" -> "b"
      [] c = "M" -> "m"
      [] c = "O" -> "o"
      [] c = "T" -> "t"
      [] OTHER -> c

\* strings.ToLower(s)
ToLower(s) == [i \in 1..Len(s) |-> LowerRune(s[i])]

\* strings.TrimLeft / TrimRight / Trim with a one-symbol cutset
RECURSIVE TrimLeft(_, _)
TrimLeft(s, c) ==
    IF s # <<>> /\ Head(s) = c THEN TrimLeft(Tail(s), c) ELSE s

RECURSIVE TrimRight(_, _)
TrimRight(s, c) ==
    IF s # <<>> /\ s[Len(s)] = c THEN TrimRight(SubSeq(s, 1, Len(s) - 1), c) ELSE s

Trim(s, c) == TrimRight(TrimLeft(s, c), c)

\* strings.TrimSpace(s); " " is the only white space of the alphabet
TrimSpace(s) == Trim(s, " ")

\* strings.Split(s, sep) for a one-symbol separator: the pieces between the
\* separators, so Split("", sep) is one empty piece.
RECURSIVE SplitFrom(_, _, _)
SplitFrom(s, sep, cur) ==
    IF s = <<>> THEN <<cur>>
    ELSE IF Head(s) = sep THEN <<cur>> \o SplitFrom(Tail(s), sep, <<>>)
    ELSE SplitFrom(Tail(s), sep, Append(cur, Head(s)))

Split(s, sep) == SplitFrom(s, sep, <<>>)

\* --------------------------------------------------------- text/template
\* A template source is a string; "{" opens an action, "}" closes it, and the
\* symbol between them names what the action evaluates on the *http.Request:
\* "Q" is .URL.RawQuery, any other name is a field the request does not have
\* (Parse accepts it, Execute fails on it).  A compiled template is the list
\* of its nodes; Parse fails on an action that is not closed.
ParseError == <<"error", "unclosed action">>
NilError == <<"nil", "">>
NilTemplate == << <<"nil", "">> >>

RECURSIVE ParseNodes(_, _)
ParseNodes(src, acc) ==
    IF src = <<>> THEN [err |-> NilError, tpl |-> acc]
    ELSE IF Head(src) = "{"
         THEN IF Len(src) >= 3 /\ src[3] = "}"
              THEN ParseNodes(SubSeq(src, 4, Len(src)), Append(acc, <<"field", src[2]>>))
              ELSE [err |-> ParseError, tpl |-> NilTemplate]
    ELSE ParseNodes(Tail(src), Append(acc, <<"text", Head(src)>>))

\* template.New("").Parse(src)
Parse(src) == ParseNodes(src, <<>>)

ExecError == <<"error", "can't evaluate field">>

\* (*Template).Execute(buf, rq): the nodes are written in order; the first
\* failing node ends the execution with an error.
RECURSIVE ExecNodes(_, _, _)
ExecNodes(tpl, query, out) ==
    IF tpl = <<>> THEN [err |-> NilError, out |-> out]
    ELSE IF Head(tpl)[1] = "text" THEN ExecNodes(Tail(tpl), query, Append(out, Head(tpl)[2]))
    ELSE IF Head(tpl)[2] = "Q" THEN ExecNodes(Tail(tpl), query, out \o query)
    ELSE [err |-> ExecError, out |-> out]

Execute(tpl, query) == ExecNodes(tpl, query, <<>>)

\* ------------------------------------------------------------ the data
\* Service keys, template sources and the rule sets the storage can hold.
K_a == <<"a">>
K_b == <<"b">>

T_plain == <<"H">>
T_pad == <<" ", "H", "?", "i", " ">>
T_query == <<"H", "/", "{", "Q", "}">>
T_nofield == <<"H", "{", "X", "}">>
T_bad == <<"H", "{", "Q">>

Rule(url, tpl) == [URL |-> url, LocationTemplate |-> tpl]

S_empty == <<>>
S_two == <<Rule(K_a, T_plain), Rule(K_b, T_pad)>>
S_one == <<Rule(K_a, T_query)>>
S_badlast == <<Rule(K_b, T_plain), Rule(K_a, T_bad)>>
S_badfirst == <<Rule(K_a, T_bad), Rule(K_b, T_query)>>
S_badmid == <<Rule(K_b, T_plain), Rule(K_a, T_bad), Rule(K_b, T_query)>>
S_fault == <<Rule(K_b, T_nofield), Rule(K_b, T_plain), Rule(K_a, T_nofield)>>

Snapshots == {S_empty, S_two, S_one, S_badlast, S_badfirst, S_badmid, S_fault}

\* The engine configurations DefaultEngine is called with.
DefaultUrls == {EmptyStr, <<"H", "d">>}
UrlParameters == {EmptyStr, <<"p">>}
RobotLists == {EmptyStr, <<"b", "o", "t">>, <<"|", "B", "o", "t">>}

\* The requests.
Paths == {<<"/", "a">>, <<"/", "b", "/">>, <<"/", "z">>}
Methods == {"HEAD", "GET", "POST"}
UserAgents == {<<"M", "o", "z">>, <<"B", "o", "t">>}
Queries == {EmptyStr, <<"x">>}

\* ------------------------------------------------------- redirect policy
\* engine.IsRegularUser: the robots are tried in order.
RECURSIVE NoRobotIn(_, _)
NoRobotIn(robots, userAgent) ==
    IF robots = <<>> THEN TRUE
    ELSE IF Head(robots) # EmptyStr /\ Contains(userAgent, Head(robots)) THEN FALSE
    ELSE NoRobotIn(Tail(robots), userAgent)

IsRegularUser(robots, userAgent) == NoRobotIn(robots, ToLower(userAgent))

\* ProcessRegularUserUrl with a slip: the parameter is always joined by "?".
ProcessRegularUserUrlQuestion(urlParameter, url) ==
    IF urlParameter = EmptyStr THEN url
    ELSE url \o <<"?">> \o urlParameter

\* engine.ProcessRegularUserUrl
ProcessRegularUserUrl(urlParameter, url) ==
    IF urlParameter = EmptyStr THEN url
    ELSE IF Contains(url, <<"?">>) THEN url \o <<"&">> \o urlParameter
    ELSE url \o <<"?">> \o urlParameter

\* ------------------------------------------------------------ responses
\* A response is its status, its header map and its body text; a header map
\* is a function from the header names that are set to their value.
NoHeader == [h \in {} |-> EmptyStr]
NoResponse == [status |-> 0, header |-> NoHeader, body |-> EmptyStr]

\* Header.Add / Header.Set on a name that is written once per response
SetHeader(header, name, value) == (name :> value) @@ header

\* http.Redirect(wr, rq, url, code) for an absolute ASCII url: the Location
\* header, the status and, for GET alone, a short note as the body
HttpRedirect(header, method, url, code) ==
    [status |-> code, header |-> SetHeader(header, "Location", url),
     body |-> IF method = "GET" THEN <<"<a>">> ELSE EmptyStr]

\* http.NotFound(wr, rq)
HttpNotFound == [status |-> StatusNotFound, header |-> NoHeader, body |-> <<"4", "0", "4">>]

\* http.Error(wr, err.Error(), 500)
HttpError(err) == [status |-> StatusInternalServerError, header |-> NoHeader, body |-> <<err[2]>>]

\* engine.Redirect(url, wr, rq)
Redirect(cfg, url, method, userAgent) ==
    LET final == IF IsRegularUser(cfg.robots, userAgent)
                 THEN ProcessRegularUserUrl(cfg.urlParameter, url)
                 ELSE url
    IN  HttpRedirect(SetHeader(NoHeader, "Content-Length", <<"0">>), method, final,
                     StatusMovedPermanently)

\* RespondRendered with a slip: the rendered text is not trimmed.
RespondRenderedUntrimmed(cfg, out, method, userAgent) ==
    IF method = "HEAD"
    THEN [status |-> StatusOK, header |-> SetHeader(NoHeader, "Location", out),
          body |-> EmptyStr]
    ELSE Redirect(cfg, out, method, userAgent)

\* RespondRendered with a slip: the Location of a HEAD response is decorated
\* like the Location of a redirect.
RespondRenderedDecorated(cfg, out, method, userAgent) ==
    LET url == TrimSpace(out)
        final == IF IsRegularUser(cfg.robots, userAgent)
                 THEN ProcessRegularUserUrl(cfg.urlParameter, url)
                 ELSE url
    IN  IF method = "HEAD"
        THEN [status |-> StatusOK, header |-> SetHeader(NoHeader, "Location", final),
              body |-> EmptyStr]
        ELSE Redirect(cfg, url, method, userAgent)

\* engine.ServeHTTP, lines 74-83: the response to a rendered template
RespondRendered(cfg, out, method, userAgent) ==
    LET url == TrimSpace(out)
    IN  IF method = "HEAD"
        THEN [status |-> StatusOK, header |-> SetHeader(NoHeader, "Location", url),
              body |-> EmptyStr]
        ELSE Redirect(cfg, url, method, userAgent)

\* RespondMiss with a slip: the default URL is not looked at.
RespondMissNotFound(cfg, method, userAgent) == HttpNotFound

\* engine.ServeHTTP, lines 51-59: the response to a miss
RespondMiss(cfg, method, userAgent) ==
    IF cfg.defaultUrl # EmptyStr
    THEN Redirect(cfg, cfg.defaultUrl, method, userAgent)
    ELSE HttpNotFound

\* ------------------------------------------------------------ the state
VARIABLES
    eng,        \* the engine's configuration: defaultUrl, urlParameter, robots
    rules,      \* eng.rules, the active rule table: service key -> compiled template
    lock,       \* eng.lock: the writer that holds or awaits it, and the readers in it
    storage,    \* the rule set the storage collaborator holds
    hits,       \* the stat collaborator: the number of Touch calls per service key
    rl,         \* each Reload call's position and locals
    rq,         \* each request's position, its *http.Request, locals and response
    left,       \* the calls the environment has yet to make: reloads, requests, writes
    fetched,    \* history: the rule sets storage.All() has returned, in order
    installed,  \* history: for each swap, in order, the index in fetched of its rule set
    returned    \* history: the indexes in fetched of the Reload calls that returned nil

vars == <<eng, rules, lock, storage, hits, rl, rq, left, fetched, installed, returned>>

EmptyTable == [k \in {} |-> NilTemplate]
StorageError == <<"error", "storage">>

Services == {Trim(p, "/") : p \in Paths}

\* Beside its locals a Reload call keeps, as history, the index readNo in
\* fetched of the rule set it read and, in base, the table and the number of
\* swaps at its start.  A request keeps, as history: seen, the number of swaps
\* at its Lookup; mustSee, the Reload calls that had returned nil when it
\* began; touched and executed, its calls of Touch and Execute; execGen, the
\* number of swaps when it executed its template.

\* Line 48: tpl, ok := eng.rules[service]
Lookup(table, service) ==
    IF service \in DOMAIN table
    THEN [ok |-> TRUE, tpl |-> table[service]]
    ELSE [ok |-> FALSE, tpl |-> NilTemplate]

IdleReload ==
    [pc |-> "idle", rules |-> <<>>, swap |-> EmptyTable, i |-> 0, err |-> NilError,
     readNo |-> 0, base |-> [table |-> EmptyTable, gen |-> 0]]

IdleRequest ==
    [pc |-> "idle", path |-> EmptyStr, method |-> "", userAgent |-> EmptyStr,
     query |-> EmptyStr, service |-> EmptyStr, tpl |-> NilTemplate, ok |-> FALSE,
     resp |-> NoResponse, seen |-> 0, mustSee |-> {}, touched |-> 0, executed |-> 0,
     execGen |-> 0]

\* DefaultEngine(storage, sink, defaultUrl, urlParameter, robots): the table
\* is the nil map, the lock is free.
DefaultEngine(defaultUrl, urlParameter, robots) ==
    [defaultUrl |-> defaultUrl, urlParameter |-> urlParameter,
     robots |-> Split(robots, "|")]

InitWith(engines, stores, budget) ==
    /\ eng \in engines
    /\ rules = EmptyTable
    /\ lock = [writer |-> NoOne, readers |-> {}]
    /\ storage \in stores
    /\ hits = [k \in Services |-> 0]
    /\ rl = [r \in Reloaders |-> IdleReload]
    /\ rq = [q \in Requests |-> IdleRequest]
    /\ left = budget
    /\ fetched = <<>>
    /\ installed = <<>>
    /\ returned = {}

\* ------------------------------------------------------------- storage
\* The management interface replaces the stored rule set.
StorageWrite(stores) ==
    /\ left.writes > 0
    /\ \E s \in stores : s # storage /\ storage' = s
    /\ left' = [left EXCEPT !.writes = @ - 1]
    /\ UNCHANGED <<eng, rules, lock, hits, rl, rq, fetched, installed, returned>>

\* -------------------------------------------------------------- Reload
FreeReloader == FirstFree(ReloadSlots, {r \in Reloaders : rl[r].pc \in {"idle", "done"}})
FreeRequest == FirstFree(RequestSlots, {q \in Requests : rq[q].pc \in {"idle", "done"}})

\* ReloadAll with a slip: Reload takes the write lock on entry and so holds it
\* while it fetches and compiles.
ReloadAllLocked(r) ==
    /\ r \in FreeReloader
    /\ left.reloads > 0
    /\ lock.writer = NoOne
    /\ lock.readers = {}
    /\ lock' = [lock EXCEPT !.writer = r]
    /\ left' = [left EXCEPT !.reloads = @ - 1]
    /\ rl' = [rl EXCEPT ![r] = [IdleReload EXCEPT !.pc = "parse", !.rules = storage,
                                  !.i = 1, !.readNo = Len(fetched) + 1,
                                  !.base = [table |-> rules, gen |-> Len(installed)]]]
    /\ fetched' = Append(fetched, storage)
    /\ UNCHANGED <<eng, rules, storage, hits, rq, installed, returned>>

\* A caller invokes eng.Reload(); lines 87-91: storage.All() returns the
\* stored rule set, and swap is made.
ReloadAll(r) ==
    /\ r \in FreeReloader
    /\ left.reloads > 0
    /\ left' = [left EXCEPT !.reloads = @ - 1]
    /\ rl' = [rl EXCEPT ![r] = [IdleReload EXCEPT !.pc = "parse", !.rules = storage,
                                  !.i = 1, !.readNo = Len(fetched) + 1,
                                  !.base = [table |-> rules, gen |-> Len(installed)]]]
    /\ fetched' = Append(fetched, storage)
    /\ UNCHANGED <<eng, rules, lock, storage, hits, rq, installed, returned>>

\* A caller invokes eng.Reload(); lines 87-90: storage.All() fails, and Reload
\* returns the error.
ReloadAllFails(r) ==
    /\ r \in FreeReloader
    /\ left.reloads > 0
    /\ left' = [left EXCEPT !.reloads = @ - 1]
    /\ rl' = [rl EXCEPT ![r] = [IdleReload EXCEPT !.pc = "done", !.err = StorageError,
                                  !.base = [table |-> rules, gen |-> Len(installed)]]]
    /\ UNCHANGED <<eng, rules, lock, storage, hits, rq, fetched, installed, returned>>

\* ReloadParse with a slip: on a compile failure the rules compiled so far are
\* installed before the error is returned.
ReloadParsePartial(r) ==
    /\ rl[r].pc = "parse"
    /\ rl[r].i <= Len(rl[r].rules)
    /\ LET rule == rl[r].rules[rl[r].i]
           p == Parse(rule.LocationTemplate)
       IN  IF p.err # NilError
           THEN /\ rl' = [rl EXCEPT ![r].pc = "done", ![r].err = p.err,
                                    ![r].rules = <<>>, ![r].swap = EmptyTable, ![r].i = 0]
                /\ rules' = rl[r].swap
           ELSE /\ rl' = [rl EXCEPT ![r].swap = (rule.URL :> p.tpl) @@ @, ![r].i = @ + 1]
                /\ rules' = rules
    /\ UNCHANGED <<eng, lock, storage, hits, rq, left, fetched, installed, returned>>

\* ReloadParse with a slip: each compiled rule is stored into the active table
\* in place instead of into swap.
ReloadParseInPlace(r) ==
    /\ rl[r].pc = "parse"
    /\ rl[r].i <= Len(rl[r].rules)
    /\ LET rule == rl[r].rules[rl[r].i]
           p == Parse(rule.LocationTemplate)
       IN  IF p.err # NilError
           THEN /\ rl' = [rl EXCEPT ![r].pc = "done", ![r].err = p.err,
                                    ![r].rules = <<>>, ![r].swap = EmptyTable, ![r].i = 0]
                /\ rules' = rules
           ELSE /\ rl' = [rl EXCEPT ![r].swap = (rule.URL :> p.tpl) @@ @, ![r].i = @ + 1]
                /\ rules' = (rule.URL :> p.tpl) @@ rules
    /\ UNCHANGED <<eng, lock, storage, hits, rq, left, fetched, installed, returned>>

\* Lines 92-98: one iteration of the loop over the rules.
ReloadParse(r) ==
    /\ rl[r].pc = "parse"
    /\ rl[r].i <= Len(rl[r].rules)
    /\ LET rule == rl[r].rules[rl[r].i]
           p == Parse(rule.LocationTemplate)
       IN  IF p.err # NilError
           THEN rl' = [rl EXCEPT ![r].pc = "done", ![r].err = p.err,
                                 ![r].rules = <<>>, ![r].swap = EmptyTable, ![r].i = 0]
           ELSE rl' = [rl EXCEPT ![r].swap = (rule.URL :> p.tpl) @@ @, ![r].i = @ + 1]
    /\ UNCHANGED <<eng, rules, lock, storage, hits, rq, left, fetched, installed, returned>>

\* ReloadLock with a slip: at the end of the loop Reload returns nil and the
\* swap is left out.
ReloadLockSkipped(r) ==
    /\ rl[r].pc = "parse"
    /\ rl[r].i > Len(rl[r].rules)
    /\ rl' = [rl EXCEPT ![r].pc = "done", ![r].err = NilError,
                        ![r].rules = <<>>, ![r].swap = EmptyTable, ![r].i = 0]
    /\ returned' = returned \cup {rl[r].readNo}
    /\ UNCHANGED <<eng, rules, lock, storage, hits, rq, left, fetched, installed>>

\* Line 99, eng.lock.Lock(): the writer takes the lock's writer mutex, which
\* keeps new readers out, ...
ReloadLock(r) ==
    /\ rl[r].pc = "parse"
    /\ rl[r].i > Len(rl[r].rules)
    /\ lock.writer = NoOne
    /\ lock' = [lock EXCEPT !.writer = r]
    /\ rl' = [rl EXCEPT ![r].pc = "drain"]
    /\ UNCHANGED <<eng, rules, storage, hits, rq, left, fetched, installed, returned>>

\* ... and holds the lock once the readers in it have left.
ReloadLocked(r) ==
    /\ rl[r].pc = "drain"
    /\ lock.writer = r
    /\ lock.readers = {}
    /\ rl' = [rl EXCEPT ![r].pc = "assign"]
    /\ UNCHANGED <<eng, rules, lock, storage, hits, rq, left, fetched, installed, returned>>

\* ReloadAssign with a slip: the new rules are merged into the active table.
ReloadAssignMerged(r) ==
    /\ rl[r].pc = "assign"
    /\ rules' = rl[r].swap @@ rules
    /\ installed' = Append(installed, rl[r].readNo)
    /\ rl' = [rl EXCEPT ![r].pc = "unlock"]
    /\ UNCHANGED <<eng, lock, storage, hits, rq, left, fetched, returned>>

\* Line 100: eng.rules = swap
ReloadAssign(r) ==
    /\ rl[r].pc = "assign"
    /\ rules' = rl[r].swap
    /\ installed' = Append(installed, rl[r].readNo)
    /\ rl' = [rl EXCEPT ![r].pc = "unlock"]
    /\ UNCHANGED <<eng, lock, storage, hits, rq, left, fetched, returned>>

\* ReloadUnlock with a slip: Reload returns without releasing the write lock.
ReloadUnlockLeaked(r) ==
    /\ rl[r].pc = "unlock"
    /\ rl' = [rl EXCEPT ![r].pc = "done", ![r].err = NilError,
                        ![r].rules = <<>>, ![r].swap = EmptyTable, ![r].i = 0]
    /\ returned' = returned \cup {rl[r].readNo}
    /\ UNCHANGED <<eng, rules, lock, storage, hits, rq, left, fetched, installed>>

\* Lines 101-102: eng.lock.Unlock(); return nil
ReloadUnlock(r) ==
    /\ rl[r].pc = "unlock"
    /\ lock' = [lock EXCEPT !.writer = NoOne]
    /\ rl' = [rl EXCEPT ![r].pc = "done", ![r].err = NilError,
                        ![r].rules = <<>>, ![r].swap = EmptyTable, ![r].i = 0]
    /\ returned' = returned \cup {rl[r].readNo}
    /\ UNCHANGED <<eng, rules, storage, hits, rq, left, fetched, installed>>

\* ------------------------------------------------------------ ServeHTTP
\* A request arrives; line 44: service := strings.Trim(rq.URL.Path, "/")
ServeBegin(q, inputs) ==
    /\ q \in FreeRequest
    /\ left.requests > 0
    /\ left' = [left EXCEPT !.requests = @ - 1]
    /\ \E in \in inputs :
         rq' = [rq EXCEPT ![q] = [IdleRequest EXCEPT !.pc = "rlock", !.path = in.path,
                                    !.method = in.method, !.userAgent = in.userAgent,
                                    !.query = in.query, !.service = Trim(in.path, "/"),
                                    !.mustSee = returned]]
    /\ UNCHANGED <<eng, rules, lock, storage, hits, rl, fetched, installed, returned>>

\* Line 47: eng.lock.RLock() waits while a writer holds or awaits the lock.
ServeRLock(q) ==
    /\ rq[q].pc = "rlock"
    /\ lock.writer = NoOne
    /\ lock' = [lock EXCEPT !.readers = @ \cup {q}]
    /\ rq' = [rq EXCEPT ![q].pc = "lookup"]
    /\ UNCHANGED <<eng, rules, storage, hits, rl, left, fetched, installed, returned>>

\* Line 48: tpl, ok := eng.rules[service]
ServeLookup(q) ==
    /\ rq[q].pc = "lookup"
    /\ LET found == Lookup(rules, rq[q].service)
       IN  rq' = [rq EXCEPT ![q].pc = "runlock", ![q].ok = found.ok, ![q].tpl = found.tpl,
                            ![q].seen = Len(installed)]
    /\ UNCHANGED <<eng, rules, lock, storage, hits, rl, left, fetched, installed, returned>>

\* Line 49: eng.lock.RUnlock()
ServeRUnlock(q) ==
    /\ rq[q].pc = "runlock"
    /\ lock' = [lock EXCEPT !.readers = @ \ {q}]
    /\ rq' = [rq EXCEPT ![q].pc = "found"]
    /\ UNCHANGED <<eng, rules, storage, hits, rl, left, fetched, installed, returned>>

\* ServeMiss with a slip: the stat collaborator is notified of a miss too.
ServeMissTouched(q) ==
    /\ rq[q].pc = "found"
    /\ ~rq[q].ok
    /\ hits' = [hits EXCEPT ![rq[q].service] = @ + 1]
    /\ rq' = [rq EXCEPT ![q].pc = "done", ![q].touched = @ + 1,
                        ![q].resp = RespondMiss(eng, rq[q].method, rq[q].userAgent)]
    /\ UNCHANGED <<eng, rules, lock, storage, rl, left, fetched, installed, returned>>

\* Lines 51-59: no rule for the service
ServeMiss(q) ==
    /\ rq[q].pc = "found"
    /\ ~rq[q].ok
    /\ rq' = [rq EXCEPT ![q].pc = "done",
                        ![q].resp = RespondMiss(eng, rq[q].method, rq[q].userAgent)]
    /\ UNCHANGED <<eng, rules, lock, storage, hits, rl, left, fetched, installed, returned>>

\* Line 62: eng.stat.Touch(service) is called, on the request's goroutine; the
\* collaborator counts the hit ...
ServeTouch(q) ==
    /\ rq[q].pc = "found"
    /\ rq[q].ok
    /\ hits' = [hits EXCEPT ![rq[q].service] = @ + 1]
    /\ rq' = [rq EXCEPT ![q].pc = "touching", ![q].touched = @ + 1]
    /\ UNCHANGED <<eng, rules, lock, storage, rl, left, fetched, installed, returned>>

\* ... and ServeHTTP goes on when, and only when, Touch returns.
ServeTouched(q) ==
    /\ rq[q].pc = "touching"
    /\ rq' = [rq EXCEPT ![q].pc = "execute"]
    /\ UNCHANGED <<eng, rules, lock, storage, hits, rl, left, fetched, installed, returned>>

\* ServeExecute with a slip: the template is read from the table again when
\* it is executed.
ServeExecuteReread(q) ==
    /\ rq[q].pc = "execute"
    /\ LET again == Lookup(rules, rq[q].service)
           x == Execute(IF again.ok THEN again.tpl ELSE rq[q].tpl, rq[q].query)
       IN  rq' = [rq EXCEPT ![q].pc = "done", ![q].executed = @ + 1,
                            ![q].execGen = Len(installed),
                            ![q].resp = IF x.err # NilError
                                        THEN HttpError(x.err)
                                        ELSE RespondRendered(eng, x.out, rq[q].method,
                                                             rq[q].userAgent)]
    /\ UNCHANGED <<eng, rules, lock, storage, hits, rl, left, fetched, installed, returned>>

\* ServeExecute with a slip: a rule whose rendering fails is removed from the
\* active table.
ServeExecuteEvicting(q) ==
    /\ rq[q].pc = "execute"
    /\ LET x == Execute(rq[q].tpl, rq[q].query)
       IN  /\ rq' = [rq EXCEPT ![q].pc = "done", ![q].executed = @ + 1,
                               ![q].execGen = Len(installed),
                               ![q].resp = IF x.err # NilError
                                           THEN HttpError(x.err)
                                           ELSE RespondRendered(eng, x.out, rq[q].method,
                                                                rq[q].userAgent)]
           /\ rules' = IF x.err # NilError
                       THEN [k \in DOMAIN rules \ {rq[q].service} |-> rules[k]]
                       ELSE rules
    /\ UNCHANGED <<eng, lock, storage, hits, rl, left, fetched, installed, returned>>

\* Lines 65-84: the template is executed and the response written.
ServeExecute(q) ==
    /\ rq[q].pc = "execute"
    /\ LET x == Execute(rq[q].tpl, rq[q].query)
       IN  rq' = [rq EXCEPT ![q].pc = "done", ![q].executed = @ + 1,
                            ![q].execGen = Len(installed),
                            ![q].resp = IF x.err # NilError
                                        THEN HttpError(x.err)
                                        ELSE RespondRendered(eng, x.out, rq[q].method,
                                                             rq[q].userAgent)]
    /\ UNCHANGED <<eng, rules, lock, storage, hits, rl, left, fetched, installed, returned>>

\* ------------------------------------------------- the specifications
\* Spec: two Reload callers at a time and one request at a time, on one engine.
Engines == {DefaultEngine(<<"H", "d">>, <<"p">>, <<"b", "o", "t">>)}
Stores == {S_two, S_one, S_badmid}
Inputs ==
    [path : {<<"/", "a">>, <<"/", "z">>}, method : {"GET"},
     userAgent : {<<"M", "o", "z">>}, query : {<<"x">>}]

Init == InitWith(Engines, Stores,
                 [reloads |-> MaxReloads, requests |-> MaxRequests, writes |-> MaxWrites])

Next ==
    \/ StorageWrite(Stores)
    \/ \E r \in Reloaders : ReloadAll(r)
    \/ \E r \in Reloaders : ReloadAllFails(r)
    \/ \E r \in Reloaders : ReloadParse(r)
    \/ \E r \in Reloaders : ReloadLock(r)
    \/ \E r \in Reloaders : ReloadLocked(r)
    \/ \E r \in Reloaders : ReloadAssign(r)
    \/ \E r \in Reloaders : ReloadUnlock(r)
    \/ \E q \in OneRequest : ServeBegin(q, Inputs)
    \/ \E q \in OneRequest : ServeRLock(q)
    \/ \E q \in OneRequest : ServeLookup(q)
    \/ \E q \in OneRequest : ServeRUnlock(q)
    \/ \E q \in OneRequest : ServeMiss(q)
    \/ \E q \in OneRequest : ServeTouch(q)
    \/ \E q \in OneRequest : ServeTouched(q)
    \/ \E q \in OneRequest : ServeExecute(q)

Spec == Init /\ [][Next]_vars

\* SpecServe: one Reload caller and one request at a time, on every engine
\* configuration, rule set and request of the data.
ServeEngines ==
    {DefaultEngine(d, p, l) : d \in DefaultUrls, p \in UrlParameters, l \in RobotLists}
ServeInputs == [path : Paths, method : Methods, userAgent : UserAgents, query : Queries]

InitServe ==
    InitWith(ServeEngines, Snapshots,
             [reloads |-> ServeReloads, requests |-> ServeRequests, writes |-> 0])

NextServe ==
    \/ \E r \in OneReloader : ReloadAll(r)
    \/ \E r \in OneReloader : ReloadAllFails(r)
    \/ \E r \in OneReloader : ReloadParse(r)
    \/ \E r \in OneReloader : ReloadLock(r)
    \/ \E r \in OneReloader : ReloadLocked(r)
    \/ \E r \in OneReloader : ReloadAssign(r)
    \/ \E r \in OneReloader : ReloadUnlock(r)
    \/ \E q \in OneRequest : ServeBegin(q, ServeInputs)
    \/ \E q \in OneRequest : ServeRLock(q)
    \/ \E q \in OneRequest : ServeLookup(q)
    \/ \E q \in OneRequest : ServeRUnlock(q)
    \/ \E q \in OneRequest : ServeMiss(q)
    \/ \E q \in OneRequest : ServeTouch(q)
    \/ \E q \in OneRequest : ServeTouched(q)
    \/ \E q \in OneRequest : ServeExecute(q)

SpecServe == InitServe /\ [][NextServe]_vars

\* SpecPair: one Reload caller at a time and two requests at a time, on one
\* engine, with a rule set that has a rule whose rendering fails.
PairStores == {S_two, S_fault}
PairInputs ==
    [path : {<<"/", "a">>, <<"/", "b", "/">>}, method : {"GET", "HEAD"},
     userAgent : {<<"M", "o", "z">>}, query : {<<"x">>}]

InitPair ==
    InitWith(Engines, PairStores,
             [reloads |-> PairReloads, requests |-> PairRequests, writes |-> PairWrites])

NextPair ==
    \/ StorageWrite(PairStores)
    \/ \E r \in OneReloader : ReloadAll(r)
    \/ \E r \in OneReloader : ReloadAllFails(r)
    \/ \E r \in OneReloader : ReloadParse(r)
    \/ \E r \in OneReloader : ReloadLock(r)
    \/ \E r \in OneReloader : ReloadLocked(r)
    \/ \E r \in OneReloader : ReloadAssign(r)
    \/ \E r \in OneReloader : ReloadUnlock(r)
    \/ \E q \in Requests : ServeBegin(q, PairInputs)
    \/ \E q \in Requests : ServeRLock(q)
    \/ \E q \in Requests : ServeLookup(q)
    \/ \E q \in Requests : ServeRUnlock(q)
    \/ \E q \in Requests : ServeMiss(q)
    \/ \E q \in Requests : ServeTouch(q)
    \/ \E q \in Requests : ServeTouched(q)
    \/ \E q \in Requests : ServeExecute(q)

SpecPair == InitPair /\ [][NextPair]_vars

\* SpecLive: two Reload callers at a time and one request at a time, on an
\* engine without a default URL, under fair scheduling: a call that has been
\* made takes its next step when it can, and storage.All() and stat.Touch()
\* return. Nothing is assumed about when calls are made.
LiveEngines == {DefaultEngine(EmptyStr, <<"p">>, <<"b", "o", "t">>)}
LiveStores == {S_fault, S_badmid}
LiveInputs ==
    {[path |-> p, method |-> m, userAgent |-> <<"M", "o", "z">>, query |-> <<"x">>] :
         <<p, m>> \in {<<(<<"/", "a">>), "GET">>, <<(<<"/", "b", "/">>), "GET">>,
                       <<(<<"/", "b", "/">>), "HEAD">>, <<(<<"/", "z">>), "GET">>}}

InitLive ==
    InitWith(LiveEngines, LiveStores,
             [reloads |-> LiveReloads, requests |-> LiveRequests, writes |-> 0])

\* The steps of a Reload call and of a request after the call has been made.
ReloadStep(r) ==
    \/ ReloadParse(r)
    \/ ReloadLock(r)
    \/ ReloadLocked(r)
    \/ ReloadAssign(r)
    \/ ReloadUnlock(r)

ServeStep(q) ==
    \/ ServeRLock(q)
    \/ ServeLookup(q)
    \/ ServeRUnlock(q)
    \/ ServeMiss(q)
    \/ ServeTouch(q)
    \/ ServeTouched(q)
    \/ ServeExecute(q)

NextLive ==
    \/ \E r \in Reloaders : ReloadAll(r)
    \/ \E r \in Reloaders : ReloadAllFails(r)
    \/ \E r \in Reloaders : ReloadStep(r)
    \/ \E q \in OneRequest : ServeBegin(q, LiveInputs)
    \/ \E q \in OneRequest : ServeStep(q)

Fairness ==
    /\ \A r \in Reloaders : WF_vars(ReloadStep(r))
    /\ \A q \in OneRequest : WF_vars(ServeStep(q))

SpecLive == InitLive /\ [][NextLive]_vars /\ Fairness

\* ------------------------------------------------------------ the claims
\* Whether every template of a rule set compiles.
AllValid(snapshot) ==
    \A i \in 1..Len(snapshot) : Parse(snapshot[i].LocationTemplate).err = NilError

\* The complete compiled image of a rule set: each of its keys, with the
\* compilation of the template of the last rule that has the key.
Image(snapshot) ==
    [k \in {snapshot[i].URL : i \in 1..Len(snapshot)} |->
        LET last == CHOOSE i \in 1..Len(snapshot) :
                        /\ snapshot[i].URL = k
                        /\ \A j \in (i + 1)..Len(snapshot) : snapshot[j].URL # k
        IN  Parse(snapshot[last].LocationTemplate).tpl]

\* The table that the g-th swap installed; the table of DefaultEngine for 0.
TableOfGen(g) == IF g = 0 THEN EmptyTable ELSE Image(fetched[installed[g]])

\* A Reload call that has returned and whose storage.All() failed or whose rule
\* set holds a template that does not compile.
Failing(r) ==
    /\ rl[r].pc = "done"
    /\ \/ rl[r].readNo = 0
       \/ ~AllValid(fetched[rl[r].readNo])

\* C1: a Reload whose storage.All() fails or whose rule set holds a template
\* that does not compile, at any position, returns an error, and the active
\* table is the table of before the call (as long as no other Reload call has
\* swapped since this call began): no key of the failing rule set is visible.
C1_FailedReloadKeepsTable ==
    \A r \in Reloaders :
        Failing(r) =>
            /\ rl[r].err # NilError
            /\ Len(installed) = rl[r].base.gen => rules = rl[r].base.table

\* A Reload has failed on a template that is neither the first nor the last of
\* its rule set, over a table that an earlier Reload installed.
C1_Witness ==
    \E r \in Reloaders :
        /\ Failing(r)
        /\ rl[r].readNo > 0
        /\ Parse(fetched[rl[r].readNo][1].LocationTemplate).err = NilError
        /\ Len(fetched[rl[r].readNo]) > 2
        /\ rl[r].err = ParseError
        /\ rl[r].base.gen = Len(installed)
        /\ rules # EmptyTable
        /\ rules = rl[r].base.table

\* C2: the active table is the empty table of startup or the complete compiled
\* image of one rule set that one storage.All() call returned, never a part of
\* a rule set nor a mix of two.
C2_TableIsOneSnapshot ==
    \/ rules = EmptyTable
    \/ \E n \in 1..Len(fetched) : AllValid(fetched[n]) /\ rules = Image(fetched[n])

\* A Reload call is half way through building its table, which differs from
\* the active one, installed from another rule set.
C2_Witness ==
    /\ rules # EmptyTable
    /\ \E r \in Reloaders :
        /\ rl[r].pc = "parse"
        /\ rl[r].i > 1
        /\ rl[r].i <= Len(rl[r].rules)
        /\ rl[r].swap # rules
        /\ Image(rl[r].rules) # rules


\* The response of the engine to a request that is served from table t.
ServedFrom(t, q) ==
    IF rq[q].service \notin DOMAIN t
    THEN RespondMiss(eng, rq[q].method, rq[q].userAgent)
    ELSE LET x == Execute(t[rq[q].service], rq[q].query)
         IN  IF x.err # NilError
             THEN HttpError(x.err)
             ELSE RespondRendered(eng, x.out, rq[q].method, rq[q].userAgent)

LookedUp(q) == rq[q].pc \in {"runlock", "found", "touching", "execute", "done"}

\* C3: a request is served from one table generation: its hit or miss and the
\* compiled rule it holds are those of the table that was active at its Lookup,
\* and so is its response, whatever swaps happen after the Lookup.
C3_ServedFromOneGeneration ==
    \A q \in Requests :
        LookedUp(q) =>
            LET t == TableOfGen(rq[q].seen)
            IN  /\ rq[q].ok = (rq[q].service \in DOMAIN t)
                /\ rq[q].ok => rq[q].tpl = t[rq[q].service]
                /\ rq[q].pc = "done" => rq[q].resp = ServedFrom(t, q)

\* A request has rendered its rule after a swap that followed its Lookup, and
\* the table active at the rendering would have answered it differently.
C3_Witness ==
    \E q \in Requests :
        /\ rq[q].pc = "done"
        /\ rq[q].ok
        /\ rq[q].executed = 1
        /\ rq[q].execGen > rq[q].seen
        /\ rq[q].resp # ServedFrom(TableOfGen(rq[q].execGen), q)

\* C4: a request that begins after a Reload has returned nil is looked up in
\* the table that Reload installed or in one that a later swap installed.
C4_ReturnedReloadIsVisible ==
    \A q \in Requests :
        LookedUp(q) =>
            \A n \in rq[q].mustSee : \E g \in 1..rq[q].seen : installed[g] = n

\* A request that began after a Reload had returned nil has hit a rule of the
\* table of that Reload.
C4_Witness ==
    \E q \in Requests :
        /\ LookedUp(q)
        /\ rq[q].ok
        /\ rq[q].seen > 0
        /\ installed[rq[q].seen] \in rq[q].mustSee

\* A Reload call that has returned nil and whose swap is the last one.
LastInstalled(r) ==
    /\ rl[r].pc = "done"
    /\ rl[r].err = NilError
    /\ installed # <<>>
    /\ installed[Len(installed)] = rl[r].readNo

\* C5: before the first swap every Lookup misses; once a Reload of rule set R
\* has returned nil and no other swap has followed, Lookup hits exactly the
\* keys of R, each with the compilation of R's template for it, and a key of
\* the table the swap replaced that is not in R misses.
C5_ReloadReplacesTable ==
    /\ installed = <<>> => \A k \in Services : ~Lookup(rules, k).ok
    /\ \A r \in Reloaders :
        LastInstalled(r) =>
            LET R == fetched[rl[r].readNo]
                keys == {R[i].URL : i \in 1..Len(R)}
            IN  /\ \A k \in Services \cup keys : Lookup(rules, k).ok = (k \in keys)
                /\ \A k \in keys : Lookup(rules, k).tpl = Image(R)[k]
                /\ \A g \in 1..(Len(installed) - 1) :
                       \A k \in DOMAIN TableOfGen(g) \ keys : ~Lookup(rules, k).ok

\* A Reload has replaced a table that had a key its own rule set has not.
C5_Witness ==
    \E r \in Reloaders :
        /\ LastInstalled(r)
        /\ Len(installed) > 1
        /\ \E k \in DOMAIN TableOfGen(Len(installed) - 1) :
               k \notin DOMAIN Image(fetched[rl[r].readNo]) /\ ~Lookup(rules, k).ok


\* The table a request was looked up in, whether it hit, and what its rule
\* renders to.
TableSeen(q) == TableOfGen(rq[q].seen)
Hit(q) == rq[q].service \in DOMAIN TableSeen(q)
Rendering(q) == Execute(TableSeen(q)[rq[q].service], rq[q].query)
Rendered(q) == Hit(q) /\ Rendering(q).err = NilError
Defaulted(q) == ~Hit(q) /\ eng.defaultUrl # EmptyStr

\* The Redirect Policy: the URL as decorated for the client of request q.
FinalUrl(url, q) ==
    IF IsRegularUser(eng.robots, rq[q].userAgent)
    THEN ProcessRegularUserUrl(eng.urlParameter, url)
    ELSE url

HasHeader(resp, name) == name \in DOMAIN resp.header

\* C6, as amended: a HEAD request that matches a rule whose rendering succeeds
\* is answered with status 200 and, as its only header, a Location that is the
\* trimmed rendered URL itself: the Redirect Policy is not applied to it.
C6_HeadHitLocationUndecorated ==
    \A q \in Requests :
        (rq[q].pc = "done" /\ rq[q].method = "HEAD" /\ Rendered(q)) =>
            /\ rq[q].resp.status = StatusOK
            /\ rq[q].resp.header = ("Location" :> TrimSpace(Rendering(q).out))

\* C6, as claimed: the Location of that response is the final URL, the
\* rendered URL after the Redirect Policy.
C6_HeadHitLocationFinal ==
    \A q \in Requests :
        (rq[q].pc = "done" /\ rq[q].method = "HEAD" /\ Rendered(q)) =>
            /\ rq[q].resp.status = StatusOK
            /\ HasHeader(rq[q].resp, "Location")
            /\ rq[q].resp.header["Location"] = FinalUrl(TrimSpace(Rendering(q).out), q)

\* A regular client, on an engine with a query parameter, has sent a HEAD
\* request that matched, and the rendered text had white space around it.
C6_Witness ==
    \E q \in Requests :
        /\ rq[q].pc = "done" /\ rq[q].method = "HEAD" /\ Rendered(q)
        /\ eng.urlParameter # EmptyStr
        /\ IsRegularUser(eng.robots, rq[q].userAgent)
        /\ TrimSpace(Rendering(q).out) # Rendering(q).out
        /\ rq[q].resp.status = StatusOK

\* C7: a HEAD request that matches no rule, a default URL being configured, is
\* answered with status 200 and the default URL's final URL as Location.
C7_HeadDefaultIs200 ==
    \A q \in Requests :
        (rq[q].pc = "done" /\ rq[q].method = "HEAD" /\ Defaulted(q)) =>
            /\ rq[q].resp.status = StatusOK
            /\ HasHeader(rq[q].resp, "Location")
            /\ rq[q].resp.header["Location"] = FinalUrl(eng.defaultUrl, q)

\* What a response shows of its status, Location and Content-Length.
Shown(resp) ==
    [status |-> resp.status,
     header |-> [h \in DOMAIN resp.header \cap {"Location", "Content-Length"} |->
                    resp.header[h]]]

\* C8: with a default URL D, a request that matches no rule is answered as the
\* same request would be by a rule that renders to D: same status, Location
\* and Content-Length.
C8_DefaultLikeMatchedRule ==
    \A q \in Requests :
        (rq[q].pc = "done" /\ Defaulted(q)) =>
            Shown(rq[q].resp) =
                Shown(RespondRendered(eng, eng.defaultUrl, rq[q].method, rq[q].userAgent))

\* C9: a request of a method other than HEAD that matches a rule whose
\* rendering succeeds, or that misses while a default URL is configured, is
\* answered with status 301, Content-Length 0 and, as Location, the trimmed
\* rendered URL or the default URL after the Redirect Policy.
C9_RedirectResponse ==
    \A q \in Requests :
        (rq[q].pc = "done" /\ rq[q].method # "HEAD" /\ (Rendered(q) \/ Defaulted(q))) =>
            LET url == IF Hit(q) THEN TrimSpace(Rendering(q).out) ELSE eng.defaultUrl
            IN  /\ rq[q].resp.status = StatusMovedPermanently
                /\ rq[q].resp.header =
                       ("Content-Length" :> <<"0">>) @@ ("Location" :> FinalUrl(url, q))

\* A regular client has been redirected by POST to a rendered URL that had
\* white space around it and a "?" in it, with the query parameter appended.
C9_Witness ==
    \E q \in Requests :
        /\ rq[q].pc = "done" /\ rq[q].method = "POST" /\ Rendered(q)
        /\ TrimSpace(Rendering(q).out) # Rendering(q).out
        /\ rq[q].resp.status = StatusMovedPermanently
        /\ rq[q].resp.header["Location"] =
               TrimSpace(Rendering(q).out) \o <<"&">> \o eng.urlParameter
        /\ eng.urlParameter # EmptyStr

\* C10: a request is answered with 404 exactly when it misses in the table of
\* its Lookup and no default URL is configured; then nothing was rendered, the
\* stat collaborator was not touched and the response has no Location.
C10_NotFound ==
    \A q \in Requests :
        rq[q].pc = "done" =>
            /\ (rq[q].resp.status = StatusNotFound) =
                   (~Hit(q) /\ eng.defaultUrl = EmptyStr)
            /\ rq[q].resp.status = StatusNotFound =>
                   /\ rq[q].touched = 0
                   /\ rq[q].executed = 0
                   /\ ~HasHeader(rq[q].resp, "Location")

\* A HEAD request has been answered with 404 by an engine whose table has
\* rules, none of them for the request's service.
C10_Witness ==
    \E q \in Requests :
        /\ rq[q].pc = "done" /\ rq[q].method = "HEAD"
        /\ rq[q].resp.status = StatusNotFound
        /\ TableSeen(q) # EmptyTable


\* C12, one step: the stat collaborator is touched only by a request that hit,
\* with the request's service key, once, and before the rule is rendered; a
\* request that ends has touched it once if it hit, also when its rendering
\* failed, and never if it missed.
C12_Step ==
    /\ hits' # hits =>
           \E q \in Requests :
               /\ rq[q].pc = "found" /\ rq[q].ok /\ Hit(q)
               /\ rq[q].touched = 0 /\ rq[q].executed = 0
               /\ rq'[q].pc = "touching" /\ rq'[q].executed = 0
               /\ hits' = [hits EXCEPT ![rq[q].service] = @ + 1]
    /\ \A q \in Requests :
           /\ rq'[q].touched # rq[q].touched =>
                  (rq'[q].pc = "rlock" \/ (rq'[q].touched = rq[q].touched + 1 /\ hits' # hits))
           /\ rq'[q].executed > rq[q].executed => (rq[q].touched = 1 /\ hits' = hits)
           /\ (rq[q].pc # "done" /\ rq'[q].pc = "done") =>
                  rq'[q].touched = (IF rq[q].ok THEN 1 ELSE 0)

C12_TouchOncePerHit == [][C12_Step]_vars

\* A request that hit has touched the stat collaborator once and then failed
\* to render.
C12_Witness ==
    \E q \in Requests :
        /\ rq[q].pc = "done" /\ Hit(q)
        /\ rq[q].resp.status = StatusInternalServerError
        /\ rq[q].touched = 1
        /\ hits[rq[q].service] = 1

\* C13: a matched request never waits for eng.stat.Touch to return: while
\* Touch is running, the request can go on to render its rule.
C13_TouchIsNotAwaited ==
    \A q \in Requests : rq[q].pc = "touching" => ENABLED ServeExecute(q)


\* Some non-empty configured robot substring occurs in the user-agent when
\* letter case is ignored on both sides.
RobotIgnoringCase(robots, userAgent) ==
    \E i \in DOMAIN robots :
        /\ robots[i] # EmptyStr
        /\ Contains(ToLower(userAgent), ToLower(robots[i]))

\* The request has been answered by engine.Redirect.
Redirected(q) == rq[q].pc = "done" /\ rq[q].resp.status = StatusMovedPermanently

\* C14: a client that is redirected is taken for a robot exactly when some
\* non-empty configured robot substring occurs in its user-agent, whatever the
\* letter case of the substring and of the user-agent.
C14_RobotsIgnoreCase ==
    \A q \in Requests :
        Redirected(q) =>
            (IsRegularUser(eng.robots, rq[q].userAgent) =
                 ~RobotIgnoringCase(eng.robots, rq[q].userAgent))

\* The URL handed to engine.Redirect for request q.
RedirectUrl(q) == IF Hit(q) THEN TrimSpace(Rendering(q).out) ELSE eng.defaultUrl

\* C15: the Location of a redirect is the URL unchanged for a robot and for an
\* empty query parameter; for a regular client and a query parameter P it is
\* the URL, "&" and P when the URL contains "?", the URL, "?" and P otherwise.
C15_Decoration ==
    \A q \in Requests :
        Redirected(q) =>
            LET url == RedirectUrl(q)
                P == eng.urlParameter
                location == rq[q].resp.header["Location"]
            IN  /\ ~IsRegularUser(eng.robots, rq[q].userAgent) => location = url
                /\ P = EmptyStr => location = url
                /\ (IsRegularUser(eng.robots, rq[q].userAgent) /\ P # EmptyStr) =>
                       /\ Contains(url, <<"?">>) => location = url \o <<"&">> \o P
                       /\ ~Contains(url, <<"?">>) => location = url \o <<"?">> \o P

\* A regular client has been redirected by GET to a rule's URL that holds no
\* "?", with "?" and the query parameter appended.
C15_Witness ==
    \E q \in Requests :
        /\ Redirected(q) /\ Hit(q) /\ rq[q].method = "GET"
        /\ eng.urlParameter # EmptyStr
        /\ ~Contains(RedirectUrl(q), <<"?">>)
        /\ IsRegularUser(eng.robots, rq[q].userAgent)
        /\ rq[q].resp.header["Location"] = RedirectUrl(q) \o <<"?">> \o eng.urlParameter

\* The steps of Reload between Lock and Unlock, and of ServeHTTP between RLock
\* and RUnlock.
InSwap(r) == rl[r].pc \in {"drain", "assign", "unlock"}
InLookup(q) == rq[q].pc \in {"lookup", "runlock"}

\* C16: a Reload holds or awaits the write lock for its swap only, never while
\* it fetches or compiles, and a request holds the read lock for its Lookup
\* only, never in Touch, rendering or responding; so, when no Reload is at its
\* swap, a request can take the read lock whatever the Reloads are fetching or
\* compiling, and a Reload that awaits the lock gets it whenever no request is
\* at its Lookup, whatever the requests in flight are doing.
C16_LocksHeldForSwapAndLookupOnly ==
    /\ \A r \in Reloaders : (lock.writer = r) = InSwap(r)
    /\ lock.readers = {q \in Requests : InLookup(q)}
    /\ \A q \in Requests :
           (rq[q].pc = "rlock" /\ \A r \in Reloaders : ~InSwap(r)) => ENABLED ServeRLock(q)
    /\ \A r \in Reloaders :
           (rl[r].pc = "drain" /\ \A q \in Requests : ~InLookup(q)) => ENABLED ReloadLocked(r)

\* A request is at its Lookup, holding the read lock, while a Reload is
\* compiling its second rule or a later one.
C16_Witness ==
    \E r \in Reloaders, q \in Requests :
        /\ rl[r].pc = "parse" /\ rl[r].i > 1
        /\ rq[q].pc = "lookup" /\ q \in lock.readers


\* C18: a table built from an older snapshot never replaces the table built
\* from a newer, different one, and once every Reload has returned, all of
\* them with success, the active table is the compilation of the snapshot
\* that was read last.
C18_NewestSnapshotWins ==
    /\ \A i, j \in DOMAIN installed :
           (i < j /\ installed[i] > installed[j]) =>
               fetched[installed[i]] = fetched[installed[j]]
    /\ (/\ \A r \in Reloaders : rl[r].pc \in {"idle", "done"}
        /\ returned # {}
        /\ \A n \in DOMAIN fetched : n \in returned)
           => rules = Image(fetched[Len(fetched)])

\* The rendering of the rule that request q matched has failed.
RenderFailed(q) == rq[q].pc = "done" /\ Hit(q) /\ Rendering(q).err # NilError

\* C11: a request whose rendering fails is answered with status 500, the error
\* text as the body and no Location; the active table is the one it was looked
\* up in until the next swap, and every other request looked up in that
\* generation, for the same key or another, has its hit or miss and its rule
\* from that table and is answered from it.
C11_RenderFailureIsIsolated ==
    \A q \in Requests :
        RenderFailed(q) =>
            /\ rq[q].resp.status = StatusInternalServerError
            /\ rq[q].resp.body = <<Rendering(q).err[2]>>
            /\ ~HasHeader(rq[q].resp, "Location")
            /\ rules = TableOfGen(Len(installed))
            /\ \A p \in Requests \ {q} :
                   (LookedUp(p) /\ rq[p].seen = rq[q].seen) =>
                       /\ rq[p].ok = Lookup(TableSeen(q), rq[p].service).ok
                       /\ rq[p].tpl = Lookup(TableSeen(q), rq[p].service).tpl
                       /\ rq[p].pc = "done" => rq[p].resp = ServedFrom(TableSeen(q), p)

\* A rendering has failed, and another request, looked up in the same table
\* generation, has been redirected by the rule of another key; the table is
\* still the active one.
C11_Witness ==
    \E q \in Requests, p \in Requests :
        /\ RenderFailed(q)
        /\ p # q
        /\ rq[p].pc = "done" /\ rq[p].seen = rq[q].seen
        /\ rq[p].resp.status = StatusMovedPermanently
        /\ Rendered(p)
        /\ rules = TableSeen(q)

\* C17: two requests with the same path, method, user-agent and query that
\* are looked up in the same table generation get the same response, and a
\* response is the one that its request context and its table determine.
C17_DispatchIsDeterministic ==
    \A q \in Requests, p \in Requests :
        (/\ rq[q].pc = "done" /\ rq[p].pc = "done"
         /\ rq[q].path = rq[p].path /\ rq[q].method = rq[p].method
         /\ rq[q].userAgent = rq[p].userAgent /\ rq[q].query = rq[p].query
         /\ rq[q].seen = rq[p].seen)
            => rq[q].resp = rq[p].resp

\* Two requests with the same context, looked up in one generation, have
\* been redirected alike, the one rendered before a swap to a table that
\* answers them differently and the other after it.
C17_Witness ==
    \E q \in Requests, p \in Requests :
        /\ q # p
        /\ rq[q].pc = "done" /\ rq[p].pc = "done"
        /\ rq[q].path = rq[p].path /\ rq[q].method = rq[p].method
        /\ rq[q].seen = rq[p].seen
        /\ rq[q].execGen = rq[q].seen /\ rq[p].execGen > rq[p].seen
        /\ rq[q].resp.status = StatusMovedPermanently
        /\ rq[p].resp = rq[q].resp
        /\ rq[p].resp # ServedFrom(TableOfGen(rq[p].execGen), p)


Running(r) == rl[r].pc \notin {"idle", "done"}
Serving(q) == rq[q].pc \notin {"idle", "done"}
Statuses == {StatusOK, StatusMovedPermanently, StatusNotFound, StatusInternalServerError}

\* C19: under fair scheduling every Reload call returns, with nil or with an
\* error, every request is answered with one of the statuses 200, 301, 404 and
\* 500, and the write lock and the read lock, once taken, are released.
C19_EveryCallEnds ==
    /\ \A r \in Reloaders : Running(r) ~> (rl[r].pc = "done")
    /\ \A q \in OneRequest :
           Serving(q) ~> (rq[q].pc = "done" /\ rq[q].resp.status \in Statuses)
    /\ \A r \in Reloaders : (lock.writer = r) ~> (lock.writer # r)
    /\ \A q \in OneRequest : (q \in lock.readers) ~> (q \notin lock.readers)

\* Every call that could be made has ended, one Reload with an error after
\* another had swapped, a request has been answered, and the lock is free.
C19_Witness ==
    /\ left.reloads = 0 /\ left.requests = 0
    /\ \A r \in Reloaders : rl[r].pc = "done"
    /\ \E r \in Reloaders : rl[r].err # NilError
    /\ installed # <<>>
    /\ \E q \in Requests : rq[q].pc = "done" /\ rq[q].resp.status \in Statuses
    /\ lock = [writer |-> NoOne, readers |-> {}]

====
